---- MODULE Spec2Model ----
(***************************************************************************)
(* Admin backend of a storefront (src/server.js): two JSON-keyed           *)
(* collections, content pages and products, behind an IP-allowlist gate.   *)
(* The source holds two variants of the server: the file-backed one        *)
(* (lines 1-428: loadData/saveData on data/*.json, write to a temporary    *)
(* path then rename) and the in-memory one (lines 429-578: two module      *)
(* level objects).  A request handler is modelled as a process whose steps *)
(* are the stretches of synchronous code between two awaits.               *)
(*                                                                         *)
(* Strings the code takes apart (addresses, headers) are sequences of      *)
(* one-character strings, so that split, trim and includes are computed.   *)
(* Other JavaScript values are strings; a missing property is Undefined.   *)
(* Timestamps are clock readings (naturals); 0 stands for a missing or     *)
(* falsy timestamp.                                                        *)
(***************************************************************************)
EXTENDS Naturals, Sequences, FiniteSets, Bags, TLC


\* ------------------------------------------------------------------ bounds

\* Requests the server accepts in one run.
MaxRequests == 3
\* Requests in flight at the same time.
MaxInFlight == 2
\* Last reading of the server clock.
MaxClock == 2

\* ------------------------------------------------------- JavaScript values

Undefined == "undefined"

\* A value in a condition: undefined, the empty string and the number 0 are
\* falsy.  Numbers are written with the prefix n: (the price 0 is "n:0").
Truthy(v) == v \notin {Undefined, "", "n:0"}

\* String.prototype.includes on character sequences.
Includes(s, sub) ==
    \E i \in 1..(Len(s) + 1) :
        /\ i + Len(sub) - 1 <= Len(s)
        /\ SubSeq(s, i, i + Len(sub) - 1) = sub

\* s.split(',')[0]: the characters before the first comma.
RECURSIVE SplitFirst(_)
SplitFirst(s) ==
    IF s = <<>> \/ Head(s) = "," THEN <<>>
    ELSE <<Head(s)>> \o SplitFirst(Tail(s))

RECURSIVE TrimLeft(_)
TrimLeft(s) == IF s # <<>> /\ Head(s) = " " THEN TrimLeft(Tail(s)) ELSE s

RECURSIVE TrimRight(_)
TrimRight(s) ==
    IF s # <<>> /\ s[Len(s)] = " " THEN TrimRight(SubSeq(s, 1, Len(s) - 1)) ELSE s

\* String.prototype.trim.
Trim(s) == TrimRight(TrimLeft(s))

\* ------------------------------------------------------------- addresses

\* "127.0.0.1"
LOOPBACK4 == <<"1","2","7",".","0",".","0",".","1">>

\* "::1"
LOOPBACK6 == <<":",":","1">>

\* "::ffff:127.0.0.1"
MAPPED_LOOPBACK == <<":",":","f","f","f","f",":","1","2","7",".","0",".","0",".","1">>

\* "172.59.196.158"
ADDR_A1 == <<"1","7","2",".","5","9",".","1","9","6",".","1","5","8">>

\* "104.179.159.180"
ADDR_A2 == <<"1","0","4",".","1","7","9",".","1","5","9",".","1","8","0">>

\* "172.58.183.6"
ADDR_A3 == <<"1","7","2",".","5","8",".","1","8","3",".","6">>

\* "172.59.195.98"
ADDR_A4 == <<"1","7","2",".","5","9",".","1","9","5",".","9","8">>

\* "192.168.12.160"
ADDR_A5 == <<"1","9","2",".","1","6","8",".","1","2",".","1","6","0">>

\* "192.168.12.230"
ADDR_A6 == <<"1","9","2",".","1","6","8",".","1","2",".","2","3","0">>

\* "172.58.183.208"
ADDR_A7 == <<"1","7","2",".","5","8",".","1","8","3",".","2","0","8">>

\* "192.168.1.100"
ADDR_M1 == <<"1","9","2",".","1","6","8",".","1",".","1","0","0">>

\* "10.0.0.50"
ADDR_M2 == <<"1","0",".","0",".","0",".","5","0">>

\* "203.0.113.45"
ADDR_M3 == <<"2","0","3",".","0",".","1","1","3",".","4","5">>

\* "192.168.1.243"
ADDR_M4 == <<"1","9","2",".","1","6","8",".","1",".","2","4","3">>

\* "198.51.100.7"
ADDR_OUTSIDE == <<"1","9","8",".","5","1",".","1","0","0",".","7">>

\* "2001:db8::1"
ADDR_V6_OUTSIDE == <<"2","0","0","1",":","d","b","8",":",":","1">>

\* "5.127.0.0.12"
ADDR_NEAR_LOOPBACK == <<"5",".","1","2","7",".","0",".","0",".","1","2">>

\* " 172.59.196.158 , 198.51.100.7"
XFF_PADDED == <<" ","1","7","2",".","5","9",".","1","9","6",".","1","5","8"," ",","," ","1","9","8",".","5","1",".","1","0","0",".","7">>

\* "104.179.159.180,198.51.100.7"
XFF_CHAIN == <<"1","0","4",".","1","7","9",".","1","5","9",".","1","8","0",",","1","9","8",".","5","1",".","1","0","0",".","7">>

\* " ,127.0.0.1"
XFF_BLANK_FIRST == <<" ",",","1","2","7",".","0",".","0",".","1">>

\* The allowlist of the file-backed server.
ADMIN_IPS == {ADDR_A1, ADDR_A2, ADDR_A3, ADDR_A4, ADDR_A5, ADDR_A6, ADDR_A7}

\* The allowlist of the in-memory server.
ADMIN_IPS_MEM == {ADDR_M1, ADDR_M2, ADDR_M3, ADDR_M4, ADDR_A2}

Variants == {"file", "memory"}

\* A request's origin: the x-forwarded-for and x-real-ip headers (<<>> when
\* the header is missing or empty: both are falsy in the || chain), the peer
\* address of the connection and the host name of the request.
Origin(xff, realip, remote, hostname) ==
    [xff |-> xff, realip |-> realip, remote |-> remote, hostname |-> hostname]

\* a || b on character sequences: the empty string is falsy.
OrElse(a, b) == IF a # <<>> THEN a ELSE b

\* getClientIP of the file-backed server.  req.connection.remoteAddress,
\* req.socket.remoteAddress and req.ip all read the peer address.
getClientIPFile(o) == OrElse(Trim(SplitFirst(o.xff)), OrElse(o.realip, o.remote))

\* getClientIP of the in-memory server: no trim, no x-real-ip.
getClientIPMem(o) == OrElse(SplitFirst(o.xff), o.remote)

getClientIP(v, o) == IF v = "file" THEN getClientIPFile(o) ELSE getClientIPMem(o)

isLocalhostFile(o) ==
    LET clientIP == getClientIPFile(o) IN
    \/ o.hostname = "localhost"
    \/ Includes(clientIP, LOOPBACK4)
    \/ Includes(clientIP, LOOPBACK6)
    \/ clientIP = MAPPED_LOOPBACK

isLocalhostMem(o) ==
    \/ o.hostname = "localhost"
    \/ Includes(getClientIPMem(o), LOOPBACK4)

\* verifyAdmin: whether the gate lets the request through.
verifyAdmin(v, o) ==
    IF v = "file"
    THEN isLocalhostFile(o) \/ getClientIPFile(o) \in ADMIN_IPS
    ELSE isLocalhostMem(o) \/ getClientIPMem(o) \in ADMIN_IPS_MEM

\* Bug: the else is lost, next() is called whatever the answer.
gateAlwaysCallsNext(v, o) == TRUE

\* The gate's two outcomes (the if and the else of verifyAdmin): it calls
\* next(), or it answers 403.
gateCallsNext(v, o) == verifyAdmin(v, o)

gateAnswers403(v, o) == ~verifyAdmin(v, o)

\* ------------------------------------------------------- the durable store

Collections == {"content", "products"}

ProductIds == {"p1", "p2"}

\* A productId sent as a JSON number, and the property key an object keeps
\* for a value used as one: the string of a number, a string as it is.
NUMERIC_ID == "n:7"

PropertyKey(v) == IF v = NUMERIC_ID THEN "7" ELSE v

Pages == {"home", "about"}

\* Bug: the pages are left out of what is written.
KeyOrderProductsOnly == <<"p1", "p2">>

\* The order in which the keys of a mapping are written out.  (An object
\* keeps its keys in insertion order; a collection is read as a mapping, so
\* one fixed order stands for all of them.)
KeyOrder == <<"7", "p1", "p2", "home", "about">>

EmptyMap == [k \in {} |-> Undefined]

\* m with key k set to record rec: m[k] = rec.
Put(m, k, rec) == [j \in DOMAIN m \cup {k} |-> IF j = k THEN rec ELSE m[j]]

\* delete m[k].
Remove(m, k) == [j \in DOMAIN m \ {k} |-> m[j]]

\* The text of a collection file is a sequence of tokens: the opening brace,
\* one token <<key, record>> per entry, the closing brace.
OpenBrace == <<"{">>

CloseBrace == <<"}">>

RECURSIVE Entries(_, _)
Entries(m, ks) ==
    IF ks = <<>> THEN <<>>
    ELSE (IF Head(ks) \in DOMAIN m THEN << <<Head(ks), m[Head(ks)]>> >> ELSE <<>>)
         \o Entries(m, Tail(ks))

\* JSON.stringify(data, null, 2).
Stringify(m) == <<OpenBrace>> \o Entries(m, KeyOrder) \o <<CloseBrace>>

\* Whether JSON.parse accepts the text: one object, nothing before or after.
Parses(text) ==
    /\ Len(text) >= 2
    /\ text[1] = OpenBrace
    /\ text[Len(text)] = CloseBrace
    /\ \A i \in 2..(Len(text) - 1) : Len(text[i]) = 2

\* JSON.parse of a text it accepts: of two entries with one key the later
\* one stands.
ParseJSON(text) ==
    LET idx == 2..(Len(text) - 1)
        keys == {text[i][1] : i \in idx}
        lastOf(k) == CHOOSE i \in idx :
                        /\ text[i][1] = k
                        /\ \A j \in idx : text[j][1] = k => j <= i
    IN  [k \in keys |-> text[lastOf(k)][2]]

\* A path of the data directory: absent, or a file with its text.
NoFile == [exists |-> FALSE, text |-> <<>>]

FileOf(text) == [exists |-> TRUE, text |-> text]

\* Writing data at offset 0 of a file that holds old: what lay beyond the
\* end of data stays.
Overlay(data, old) == data \o SubSeq(old, Len(data) + 1, Len(old))

\* loadData: the outcome of reading and parsing the file f.
LoadThrows(f) == f.exists /\ ~Parses(f.text)

loadData(f) == IF f.exists THEN ParseJSON(f.text) ELSE EmptyMap

\* What a call of loadData on the file f comes to: that it throws, or the
\* mapping it returns.
Reads(f) == IF LoadThrows(f) THEN <<TRUE, EmptyMap>> ELSE <<FALSE, loadData(f)>>

\* ------------------------------------------------------- request bodies

\* What a request body carries.  present: the productData / changes object
\* is given.  name, price, id, createdAt, createdBy: fields of a product;
\* text: the field of a page's changes; timestamp: the content request's
\* timestamp.  (A lastModified or modifiedBy in a body is overwritten by
\* every handler and is left out.)
Body(present, name, price, id, createdAt, createdBy, text, timestamp) ==
    [present |-> present, name |-> name, price |-> price, id |-> id,
     createdAt |-> createdAt, createdBy |-> createdBy, text |-> text,
     timestamp |-> timestamp]

NoBody == Body(FALSE, Undefined, Undefined, Undefined, 0, Undefined, Undefined, 0)

ProductBody(name, price, id, createdAt, createdBy) ==
    Body(TRUE, name, price, id, createdAt, createdBy, Undefined, 0)

ContentBody(text, timestamp) ==
    Body(TRUE, Undefined, Undefined, Undefined, 0, Undefined, text, timestamp)

\* The record POST /api/products stores: tLast and tCreated are the two
\* readings of the clock (new Date()) in the object literal.
productRecordCreate(data, productId, clientIP, tLast, tCreated) ==
    [name |-> data.name, price |-> data.price, id |-> productId,
     lastModified |-> tLast, modifiedBy |-> clientIP,
     createdAt |-> IF data.createdAt > 0 THEN data.createdAt ELSE tCreated,
     createdBy |-> data.createdBy]

\* The record PUT /api/products/:id stores in place of originalProduct.
productRecordUpdate(updatedData, id, clientIP, originalProduct, tLast, tCreated) ==
    [name |-> updatedData.name, price |-> updatedData.price, id |-> id,
     lastModified |-> tLast, modifiedBy |-> clientIP,
     createdAt |-> IF originalProduct.createdAt > 0
                   THEN originalProduct.createdAt ELSE tCreated,
     createdBy |-> IF Truthy(originalProduct.createdBy)
                   THEN originalProduct.createdBy ELSE "admin"]

\* The record POST /api/products of the in-memory server stores.
productRecordMem(data, clientIP, tLast) ==
    [name |-> data.name, price |-> data.price, id |-> data.id,
     lastModified |-> tLast, modifiedBy |-> clientIP,
     createdAt |-> data.createdAt, createdBy |-> data.createdBy]

\* The record POST /api/content stores (both servers).
contentRecord(body, clientIP, tNow) ==
    [text |-> body.text,
     lastModified |-> IF body.timestamp > 0 THEN body.timestamp ELSE tNow,
     modifiedBy |-> clientIP]

\* The 400 checks of the handlers.
contentBad(page, body) == ~Truthy(page) \/ ~body.present

productCreateBad(productId, body) ==
    \/ ~Truthy(productId) \/ ~body.present
    \/ ~Truthy(body.name) \/ ~Truthy(body.price)

productCreateBadMem(productId, body) == ~Truthy(productId) \/ ~body.present

productUpdateBad(body) == ~Truthy(body.name) \/ ~Truthy(body.price)

\* POST /api/reset: the collections a reset type saves as {}, in order;
\* <<>> for any other type.
resetTargets(type) ==
    CASE type = "content" -> <<"content">>
      [] type = "products" -> <<"products">>
      [] type = "all" -> <<"content", "products">>
      [] OTHER -> <<>>

\* Whether the file-backed reset answers 400 for the type.
resetBad(type) == resetTargets(type) = <<>>

\* Whether the in-memory reset answers 400 for the type: it never does.
resetBadMem(type) == FALSE

\* ------------------------------------------------------------------ state

VARIABLES
    variant,    \* which of the two servers of the source runs
    file,       \* file-backed: the collection files, content.json and products.json
    tmp,        \* file-backed: the temporary paths, <file> + '.tmp'
    mem,        \* in-memory: contentData and productData
    req,        \* the requests in flight, a bag: two may be alike
    now,        \* the last reading of the server clock
    accepted,   \* requests accepted so far
    last,       \* what the last step was: the request that arrived, the response sent
    hist,       \* per product key, the last of its creates, deletes and resets to succeed
    probe,      \* the store on its own: the mapping saved and the mapping loaded
    listing     \* the last answer of GET /api/products/list

vars == <<variant, file, tmp, mem, req, now, accepted, last, hist, probe, listing>>

\* A request in flight: where it is (pc), what it is (kind, key, body), the
\* collection it saves (coll), the mapping it saves (data), the collections a
\* reset has yet to save (todo), where the file it opened is (fd), and
\* whether a saveData of it that has returned changed what a collection
\* reads as (changed).
Request(pc, kind, key, body, coll, data, todo, fd) ==
    [pc |-> pc, kind |-> kind, key |-> key, body |-> body, coll |-> coll,
     data |-> data, todo |-> todo, fd |-> fd, changed |-> FALSE]

\* The bag B with one copy of q taken out, and with one copy of q put in.
Without(B, q) == B (-) SetToBag({q})

With(B, q) == B (+) SetToBag({q})

NoOrigin == Origin(<<>>, <<>>, <<>>, "")

\* What a step was.  from: the origin of the request, when the step is its
\* arrival (NoOrigin otherwise); kind, key: the request; status: the response
\* the step sent (0: none); ts: the timestamp of a success response.
Event(from, kind, key, status, ts) ==
    [from |-> from, kind |-> kind, key |-> key, status |-> status, ts |-> ts]

NoResponse == Event(NoOrigin, "none", Undefined, 0, 0)

Response(kind, key, status, ts) == Event(NoOrigin, kind, key, status, ts)

\* The last create, delete or reset of each product key to succeed, after
\* the success of a request of this kind and key.  A reset leaves a deleted
\* key deleted.
histAfter(h, kind, key) ==
    CASE key \notin DOMAIN h /\ kind \in {"postProduct", "deleteProduct"} -> h
      [] kind = "postProduct" -> [h EXCEPT ![key] = "created"]
      [] kind = "deleteProduct" -> [h EXCEPT ![key] = "deleted"]
      [] kind = "reset" /\ key \in {"products", "all"} ->
            [k \in ProductIds |-> IF h[k] = "deleted" THEN "deleted" ELSE "reset"]
      [] OTHER -> h

NoProbe == [state |-> "none", coll |-> "content", map |-> EmptyMap,
            loaded |-> EmptyMap, threw |-> FALSE]

\* No answer of GET /api/products/list yet.
NoListing == [status |-> 0, items |-> <<>>]

\* new Date(): a reading of the clock, not before the reading t.
ClockReads(t) == {u \in {t, t + 1} : u <= MaxClock}

InitServer ==
    /\ file = [c \in Collections |-> NoFile]
    /\ tmp = [c \in Collections |-> NoFile]
    /\ mem = [c \in Collections |-> EmptyMap]
    /\ req = EmptyBag
    /\ now = 1
    /\ accepted = 0
    /\ last = NoResponse
    /\ hist = [k \in ProductIds |-> "none"]
    /\ probe = NoProbe
    /\ listing = NoListing

Init == variant \in Variants /\ InitServer

\* ----------------------------------------------------------------- inputs

\* The callers of the runs: one the gate of either server lets through (the
\* first x-forwarded-for entry is on both allowlists), one it does not.
AdminCaller == Origin(XFF_CHAIN, <<>>, ADDR_OUTSIDE, "example.com")

Outsider == Origin(<<>>, <<>>, ADDR_OUTSIDE, "example.com")

Callers == {AdminCaller, Outsider}

\* verifyAdmin and getClientIP for the callers of the runs, worked out once.
gate ==
    [v \in Variants |-> [o \in Callers |->
        [next |-> gateCallsNext(v, o), deny |-> gateAnswers403(v, o),
         clientIP |-> getClientIP(v, o)]]]

\* The productData of POST /api/products: the plain product, one that brings
\* its own id, createdAt and createdBy, one with an empty createdBy, and
\* three that lack a name or a price (the price 0 counts as lacking).
CreateBodies ==
    { ProductBody("Bead A", "n:9.99", Undefined, 0, Undefined),
      ProductBody("Bead B", "n:5", "zz", 9, "bob"),
      ProductBody("Bead A", "n:9.99", Undefined, 0, ""),
      ProductBody("Bead A", "n:0", Undefined, 0, Undefined),
      ProductBody(Undefined, "n:5", Undefined, 0, Undefined),
      ProductBody("Bead A", Undefined, Undefined, 0, Undefined) }

\* The bodies of PUT /api/products/:id: one that brings an id, a createdAt
\* and a createdBy of its own, and one without a price.
UpdateBodies ==
    { ProductBody("Bead C", "n:7", "zz", 8, "eve"),
      ProductBody("Bead C", Undefined, Undefined, 0, Undefined) }

ContentBodies == {ContentBody("hello", 0)}

ResetTypes == {"content", "products", "all", "bogus", Undefined}

\* ---------------------------------------- the file-backed server: handlers

\* What a handler has done when it reaches saveData or answers.  status: the
\* answer, 0 when it goes on to saveData(coll, data) (and then to the saves of
\* the collections of todo); clock: the last reading of the clock it took.
Outcome(status, coll, data, todo, clock) ==
    [status |-> status, coll |-> coll, data |-> data, todo |-> todo, clock |-> clock]

Answer(status, clock) == Outcome(status, "content", EmptyMap, <<>>, clock)

\* POST /api/content.  f: content.json as loadData finds it; t: the reading
\* of the clock.
postContent(page, body, clientIP, f, t) ==
    IF contentBad(page, body) THEN Answer(400, now)
    ELSE IF LoadThrows(f) THEN Answer(500, now)
    ELSE Outcome(0, "content", Put(loadData(f), page, contentRecord(body, clientIP, t)),
                 <<>>, IF body.timestamp > 0 THEN now ELSE t)

\* POST /api/products.  t1, t2: the two readings of the clock.
postProduct(productId, body, clientIP, f, t1, t2) ==
    IF productCreateBad(productId, body) THEN Answer(400, now)
    ELSE IF LoadThrows(f) THEN Answer(500, now)
    ELSE LET productData == loadData(f) IN
         IF PropertyKey(productId) \in DOMAIN productData THEN Answer(409, now)
         ELSE Outcome(0, "products",
                      Put(productData, PropertyKey(productId),
                          productRecordCreate(body, productId, clientIP, t1, t2)),
                      <<>>, IF body.createdAt > 0 THEN t1 ELSE t2)

\* PUT /api/products/:id.
putProduct(id, body, clientIP, f, t1, t2) ==
    IF productUpdateBad(body) THEN Answer(400, now)
    ELSE IF LoadThrows(f) THEN Answer(500, now)
    ELSE LET productData == loadData(f) IN
         IF id \notin DOMAIN productData THEN Answer(404, now)
         ELSE Outcome(0, "products",
                      Put(productData, id,
                          productRecordUpdate(body, id, clientIP, productData[id], t1, t2)),
                      <<>>, IF productData[id].createdAt > 0 THEN t1 ELSE t2)

\* DELETE /api/products/:id.
deleteProduct(id, f) ==
    IF LoadThrows(f) THEN Answer(500, now)
    ELSE LET productData == loadData(f) IN
         IF id \in DOMAIN productData
         THEN Outcome(0, "products", Remove(productData, id), <<>>, now)
         ELSE Answer(404, now)

\* POST /api/reset.
reset(type) ==
    IF resetBad(type) THEN Answer(400, now)
    ELSE Outcome(0, Head(resetTargets(type)), EmptyMap, Tail(resetTargets(type)), now)

\* A request arrives and runs to the first await of saveData: verifyAdmin,
\* then the handler with its loadData (the handler touches nothing shared
\* before the file is read, so its arrival is placed at that read).  With the
\* gate closed the request is answered 403 and ends.
Arrive(o, kind, key, body, res) ==
    /\ variant = "file"
    /\ accepted < MaxRequests
    /\ BagCardinality(req) < MaxInFlight
    /\ accepted' = accepted + 1
    /\ LET goes == gate["file"][o].next
           denied == gate["file"][o].deny
       IN  /\ req' = IF goes /\ res.status = 0
                      THEN With(req, Request("open", kind, key, body, res.coll,
                                             res.data, res.todo, "none"))
                      ELSE req
           /\ last' = IF denied THEN Event(o, kind, key, 403, 0)
                      ELSE Event(o, kind, key, res.status, 0)
           /\ now' = IF goes THEN res.clock ELSE now
    /\ UNCHANGED <<variant, file, tmp, mem, hist, probe, listing>>

PostContent(o, page, body) ==
    \E t \in ClockReads(now) :
        Arrive(o, "postContent", page, body,
               postContent(page, body, gate["file"][o].clientIP, file["content"], t))

PostProduct(o, productId, body) ==
    \E t1 \in ClockReads(now) : \E t2 \in ClockReads(t1) :
        Arrive(o, "postProduct", PropertyKey(productId), body,
               postProduct(productId, body, gate["file"][o].clientIP, file["products"], t1, t2))

PutProduct(o, id, body) ==
    \E t1 \in ClockReads(now) : \E t2 \in ClockReads(t1) :
        Arrive(o, "putProduct", id, body,
               putProduct(id, body, gate["file"][o].clientIP, file["products"], t1, t2))

DeleteProduct(o, id) ==
    Arrive(o, "deleteProduct", id, NoBody, deleteProduct(id, file["products"]))

Reset(o, type) == Arrive(o, "reset", type, NoBody, reset(type))

\* ---------------------------------------- the file-backed server: saveData

\* fs.writeFile(tempFile, ...): the temporary path is opened for writing,
\* which creates it or empties the file that is there.
Open(q) ==
    /\ q.pc = "open"
    /\ tmp' = [tmp EXCEPT ![q.coll] = FileOf(<<>>)]
    /\ req' = With(Without(req, q), [q EXCEPT !.pc = "write", !.fd = "tmp"])
    /\ last' = NoResponse
    /\ UNCHANGED <<variant, file, mem, now, accepted, hist, probe, listing>>

\* fs.writeFile(tempFile, ...): the text is written to the file that was
\* opened, wherever that file is by now: still at the temporary path, at the
\* collection's path (another save renamed it there), or nowhere (it was
\* replaced after that).
Write(q) ==
    LET text == Stringify(q.data) IN
    /\ q.pc = "write"
    /\ tmp' = IF q.fd = "tmp"
              THEN [tmp EXCEPT ![q.coll] = FileOf(Overlay(text, tmp[q.coll].text))]
              ELSE tmp
    /\ file' = IF q.fd = "target"
               THEN [file EXCEPT ![q.coll] = FileOf(Overlay(text, file[q.coll].text))]
               ELSE file
    /\ req' = With(Without(req, q), [q EXCEPT !.pc = "rename", !.fd = "none"])
    /\ last' = NoResponse
    /\ UNCHANGED <<variant, mem, now, accepted, hist, probe, listing>>

\* A request after the rename of the temporary path of collection c onto
\* the collection's path: the file it has open has moved with the path, or
\* has been replaced.
AfterRename(q, c) ==
    IF q.coll # c THEN q
    ELSE [q EXCEPT !.fd = CASE q.fd = "tmp" -> "target"
                            [] q.fd = "target" -> "orphan"
                            [] OTHER -> q.fd]

RECURSIVE Copies(_, _)
Copies(B, S) ==
    IF S = {} THEN 0
    ELSE LET x == CHOOSE x \in S : TRUE IN B[x] + Copies(B, S \ {x})

\* The requests of bag B, each after that rename.
Renamed(B, c) ==
    [y \in {AfterRename(x, c) : x \in DOMAIN B} |->
        Copies(B, {x \in DOMAIN B : AfterRename(x, c) = y})]

\* The timestamp of a success response: the lastModified of the record the
\* handler wrote into its mapping.
responseTimestamp(q) ==
    IF q.kind \in {"postContent", "postProduct", "putProduct"}
    THEN q.data[q.key].lastModified ELSE 0

\* fs.rename(tempFile, filename), and the handler to its end or to the next
\* saveData of a reset of all.  The rename throws when the temporary path is
\* gone.
Rename(q) ==
    LET c == q.coll
        others == Renamed(Without(req, q), c)
    IN
    /\ q.pc = "rename"
    /\ IF ~tmp[c].exists
       THEN /\ req' = Without(req, q)
            /\ last' = Response(q.kind, q.key, 500, 0)
            /\ UNCHANGED <<file, tmp, hist>>
       ELSE /\ file' = [file EXCEPT ![c] = tmp[c]]
            /\ tmp' = [tmp EXCEPT ![c] = NoFile]
            /\ IF q.todo # <<>>
               THEN /\ req' = With(others,
                                   [q EXCEPT !.pc = "open", !.coll = Head(q.todo),
                                             !.todo = Tail(q.todo),
                                             !.changed = \/ q.changed
                                                         \/ Reads(tmp[c]) # Reads(file[c])])
                    /\ last' = NoResponse
                    /\ hist' = hist
               ELSE /\ req' = others
                    /\ last' = Response(q.kind, q.key, 200, responseTimestamp(q))
                    /\ hist' = histAfter(hist, q.kind, q.key)
    /\ UNCHANGED <<variant, mem, now, accepted, probe, listing>>

\* ------------------------------------------------------ the in-memory server

\* A request to the in-memory server: verifyAdmin, then the whole handler,
\* which awaits nothing.  res: the handler's answer, with its status, the
\* timestamp it returns (ts), contentData and productData as it leaves them
\* (store) and its reading of the clock.
MemArrive(o, kind, key, res) ==
    /\ variant = "memory"
    /\ accepted < MaxRequests
    /\ accepted' = accepted + 1
    /\ LET goes == gate["memory"][o].next
           denied == gate["memory"][o].deny
       IN  /\ mem' = IF goes THEN res.store ELSE mem
           /\ now' = IF goes THEN res.clock ELSE now
           /\ last' = IF denied THEN Event(o, kind, key, 403, 0)
                      ELSE Event(o, kind, key, res.status, res.ts)
           /\ hist' = IF goes /\ res.status = 200 THEN histAfter(hist, kind, key)
                      ELSE hist
    /\ UNCHANGED <<variant, file, tmp, req, probe, listing>>

MemOutcome(status, ts, store, clock) ==
    [status |-> status, ts |-> ts, store |-> store, clock |-> clock]

\* POST /api/content.
memPostContent(page, body, clientIP, t) ==
    IF contentBad(page, body) THEN MemOutcome(400, 0, mem, now)
    ELSE LET rec == contentRecord(body, clientIP, t) IN
         MemOutcome(200, rec.lastModified,
                    [mem EXCEPT !["content"] = Put(mem["content"], page, rec)],
                    IF body.timestamp > 0 THEN now ELSE t)

\* POST /api/products: no check of name and price, no check that the key is
\* new.
memPostProduct(productId, body, clientIP, t) ==
    IF productCreateBadMem(productId, body) THEN MemOutcome(400, 0, mem, now)
    ELSE LET rec == productRecordMem(body, clientIP, t) IN
         MemOutcome(200, rec.lastModified,
                    [mem EXCEPT !["products"] = Put(mem["products"], PropertyKey(productId), rec)], t)

\* DELETE /api/products/:id.
memDeleteProduct(id) ==
    IF id \in DOMAIN mem["products"]
    THEN MemOutcome(200, 0, [mem EXCEPT !["products"] = Remove(mem["products"], id)], now)
    ELSE MemOutcome(404, 0, mem, now)

\* POST /api/reset: the collections named by the type become {}; any other
\* type changes nothing and is answered like the others.
memReset(type) ==
    IF resetBadMem(type) THEN MemOutcome(400, 0, mem, now)
    ELSE MemOutcome(200, 0,
                    [c \in Collections |->
                        IF \E i \in 1..Len(resetTargets(type)) : resetTargets(type)[i] = c
                        THEN EmptyMap ELSE mem[c]],
                    now)

MemPostContent(o, page, body) ==
    \E t \in ClockReads(now) :
        MemArrive(o, "postContent", page,
                  memPostContent(page, body, gate["memory"][o].clientIP, t))

MemPostProduct(o, productId, body) ==
    \E t \in ClockReads(now) :
        MemArrive(o, "postProduct", PropertyKey(productId),
                  memPostProduct(productId, body, gate["memory"][o].clientIP, t))

MemDeleteProduct(o, id) == MemArrive(o, "deleteProduct", id, memDeleteProduct(id))

MemReset(o, type) == MemArrive(o, "reset", type, memReset(type))

\* ------------------------------------------------------------ specification

Next ==
    \/ \E o \in Callers, page \in Pages \cup {Undefined},
          body \in ContentBodies \cup {NoBody} : PostContent(o, page, body)
    \/ \E o \in Callers, productId \in ProductIds \cup {Undefined},
          body \in CreateBodies \cup {NoBody} : PostProduct(o, productId, body)
    \/ \E o \in Callers, id \in ProductIds,
          body \in UpdateBodies : PutProduct(o, id, body)
    \/ \E o \in Callers, id \in ProductIds : DeleteProduct(o, id)
    \/ \E o \in Callers, type \in ResetTypes : Reset(o, type)
    \/ \E q \in DOMAIN req : Open(q)
    \/ \E q \in DOMAIN req : Write(q)
    \/ \E q \in DOMAIN req : Rename(q)
    \/ \E o \in Callers, page \in Pages \cup {Undefined},
          body \in ContentBodies \cup {NoBody} : MemPostContent(o, page, body)
    \/ \E o \in Callers, productId \in ProductIds \cup {Undefined},
          body \in CreateBodies \cup {NoBody} : MemPostProduct(o, productId, body)
    \/ \E o \in Callers, id \in ProductIds : MemDeleteProduct(o, id)
    \/ \E o \in Callers, type \in ResetTypes : MemReset(o, type)

Spec == Init /\ [][Next]_vars

\* ------------------------------------------------------- the gate on its own

\* The origins of the gate's runs: forwarded-for chains, padded and blank
\* first entries, loopback spellings, addresses of one allowlist or the other,
\* addresses that only contain a loopback address.
GateOrigins ==
    { Origin(xff, realip, remote, hostname) :
        xff \in {<<>>, XFF_CHAIN, XFF_PADDED, XFF_BLANK_FIRST, LOOPBACK4,
                 ADDR_V6_OUTSIDE, ADDR_NEAR_LOOPBACK, ADDR_M2},
        realip \in {<<>>, ADDR_A5, LOOPBACK6},
        remote \in {ADDR_OUTSIDE, MAPPED_LOOPBACK, ADDR_A3, ADDR_M1},
        hostname \in {"example.com", "localhost"} }

\* GET /api/admin/status: verifyAdmin, then the answer with a timestamp.
AdminStatus(o) ==
    \E t \in ClockReads(now) :
        /\ last' = Event(o, "adminStatus", Undefined,
                         IF gateAnswers403(variant, o) THEN 403
                         ELSE IF gateCallsNext(variant, o) THEN 200 ELSE 0,
                         IF gateCallsNext(variant, o) THEN t ELSE 0)
        /\ now' = IF gateCallsNext(variant, o) THEN t ELSE now
        /\ UNCHANGED <<variant, file, tmp, mem, req, accepted, hist, probe, listing>>

NextGate == \E o \in GateOrigins : AdminStatus(o)

SpecGate == Init /\ [][NextGate]_vars

\* ------------------------------------------------------ the store on its own

StoredProductA ==
    productRecordCreate(ProductBody("Bead A", "n:9.99", Undefined, 0, Undefined),
                        "p1", ADDR_A2, 1, 1)

StoredProductB ==
    productRecordCreate(ProductBody("Bead B", "n:5", "zz", 9, "bob"), "p2", ADDR_A2, 2, 2)

StoredPage == contentRecord(ContentBody("hello", 0), ADDR_A2, 1)

\* The mappings of the store's runs, per collection.
StoreMaps(c) ==
    IF c = "products"
    THEN { EmptyMap, Put(EmptyMap, "p1", StoredProductA), Put(EmptyMap, "p2", StoredProductB),
           Put(Put(EmptyMap, "p1", StoredProductA), "p2", StoredProductB) }
    ELSE { EmptyMap, Put(EmptyMap, "home", StoredPage),
           Put(Put(EmptyMap, "home", StoredPage), "about", StoredPage) }

\* The store before a run: each collection file absent or written by an
\* earlier save, each temporary path absent or left behind by a save that
\* did not reach its rename.
InitStore ==
    /\ variant = "file"
    /\ \E fc \in {NoFile} \cup {FileOf(Stringify(m)) : m \in StoreMaps("content")} :
       \E fp \in {NoFile} \cup {FileOf(Stringify(m)) : m \in StoreMaps("products")} :
           file = [c \in Collections |-> IF c = "content" THEN fc ELSE fp]
    /\ tmp \in [Collections -> {NoFile, FileOf(<<>>), FileOf(<<OpenBrace>>)}]
    /\ mem = [c \in Collections |-> EmptyMap]
    /\ req = EmptyBag
    /\ now = 1
    /\ accepted = 0
    /\ last = NoResponse
    /\ hist = [k \in ProductIds |-> "none"]
    /\ probe = NoProbe
    /\ listing = NoListing

\* saveData(<file of c>, m) is called.
StoreSave(c, m) ==
    /\ probe.state = "none"
    /\ req = EmptyBag
    /\ req' = SetToBag({Request("open", "save", Undefined, NoBody, c, m, <<>>, "none")})
    /\ probe' = [probe EXCEPT !.state = "saving", !.coll = c, !.map = m]
    /\ last' = NoResponse
    /\ UNCHANGED <<variant, file, tmp, mem, now, accepted, hist, listing>>

\* loadData(<file of c>) is called after that saveData has returned.
StoreLoad ==
    /\ probe.state = "saving"
    /\ req = EmptyBag
    /\ last.kind = "save" /\ last.status = 200
    /\ probe' = [probe EXCEPT !.state = "loaded",
                              !.threw = LoadThrows(file[probe.coll]),
                              !.loaded = IF LoadThrows(file[probe.coll]) THEN EmptyMap
                                         ELSE loadData(file[probe.coll])]
    /\ last' = NoResponse
    /\ UNCHANGED <<variant, file, tmp, mem, req, now, accepted, hist, listing>>

NextStore ==
    \/ \E c \in Collections : \E m \in StoreMaps(c) : StoreSave(c, m)
    \/ \E q \in DOMAIN req : Open(q)
    \/ \E q \in DOMAIN req : Write(q)
    \/ \E q \in DOMAIN req : Rename(q)
    \/ StoreLoad

SpecStore == InitStore /\ [][NextStore]_vars

\* ------------------------------------------------- the public product list

\* A stored product with the optional attributes the list reads; Undefined
\* for one the record does not have.  An array is written as a string.
ListedProduct(id, inStock, featured, sizes, scents, colors) ==
    [name |-> "Bead A", price |-> "n:9.99", id |-> id,
     description |-> "a bead", category |-> Undefined, emoji |-> Undefined,
     imageUrl |-> Undefined, inStock |-> inStock, featured |-> featured,
     sizes |-> sizes, scents |-> scents, colors |-> colors]

\* Bug: the sizes are passed on as stored, with no default.
publicItemNoDefault(id, product) ==
    [id |-> id, name |-> product.name, price |-> product.price,
     description |-> product.description, category |-> product.category,
     emoji |-> product.emoji, imageUrl |-> product.imageUrl,
     inStock |-> IF product.inStock # "false" THEN "true" ELSE "false",
     featured |-> IF Truthy(product.featured) THEN product.featured ELSE "false",
     sizes |-> product.sizes,
     scents |-> IF Truthy(product.scents) THEN product.scents ELSE "[]",
     colors |-> IF Truthy(product.colors) THEN product.colors ELSE "[]"]

\* GET /api/products/list: the item of one entry of productData.
publicItem(id, product) ==
    [id |-> id, name |-> product.name, price |-> product.price,
     description |-> product.description, category |-> product.category,
     emoji |-> product.emoji, imageUrl |-> product.imageUrl,
     inStock |-> IF product.inStock # "false" THEN "true" ELSE "false",
     featured |-> IF Truthy(product.featured) THEN product.featured ELSE "false",
     sizes |-> IF Truthy(product.sizes) THEN product.sizes ELSE "[Standard]",
     scents |-> IF Truthy(product.scents) THEN product.scents ELSE "[]",
     colors |-> IF Truthy(product.colors) THEN product.colors ELSE "[]"]

\* Object.entries(productData).map(...): one item per key, in key order.
RECURSIVE publicProducts(_, _)
publicProducts(productData, ks) ==
    IF ks = <<>> THEN <<>>
    ELSE IF Head(ks) \in DOMAIN productData
         THEN <<publicItem(Head(ks), productData[Head(ks)])>>
                  \o publicProducts(productData, Tail(ks))
         ELSE publicProducts(productData, Tail(ks))

\* The products files of the list's runs: absent, empty, one product with
\* every choice of optional attributes, two products, and a file a save left
\* truncated.
ListedFiles ==
    LET first == { ListedProduct("p1", inStock, featured, sizes, scents, colors) :
                       inStock \in {Undefined, "true", "false", "n:0"},
                       featured \in {Undefined, "true"},
                       sizes \in {Undefined, "[S,L]", "[]"},
                       scents \in {Undefined, "[rose]"},
                       colors \in {Undefined, "[red]"} }
        second == { ListedProduct("p2", Undefined, Undefined, Undefined, Undefined, Undefined),
                    ListedProduct("p2", "false", "true", "[S,L]", "[rose]", "[red]") }
    IN  {NoFile, FileOf(<<>>), FileOf(Stringify(EmptyMap))}
        \cup {FileOf(Stringify(Put(EmptyMap, "p1", r))) : r \in first}
        \cup {FileOf(Stringify(Put(Put(EmptyMap, "p1", r), "p2", r2))) :
                  r \in first, r2 \in second}

InitList ==
    /\ variant = "file"
    /\ \E fp \in ListedFiles :
           file = [c \in Collections |-> IF c = "products" THEN fp ELSE NoFile]
    /\ tmp = [c \in Collections |-> NoFile]
    /\ mem = [c \in Collections |-> EmptyMap]
    /\ req = EmptyBag
    /\ now = 1
    /\ accepted = 0
    /\ last = NoResponse
    /\ hist = [k \in ProductIds |-> "none"]
    /\ probe = NoProbe
    /\ listing = NoListing

\* GET /api/products/list (file-backed server; open to every caller).
ProductsList ==
    /\ variant = "file"
    /\ listing = NoListing
    /\ listing' = IF LoadThrows(file["products"])
                  THEN [status |-> 500, items |-> <<>>]
                  ELSE [status |-> 200,
                        items |-> publicProducts(loadData(file["products"]), KeyOrder)]
    /\ UNCHANGED <<variant, file, tmp, mem, req, now, accepted, last, hist, probe>>

NextList == ProductsList

SpecList == InitList /\ [][NextList]_vars

\* ------------------------------------------- products under numeric keys

\* The product keys of these runs: one a create can name by a string, one it
\* can name by a number; an update or a delete names either by the string of
\* its URL.
KeyedIds == {"p1", PropertyKey(NUMERIC_ID)}

KeyedBodies == {ProductBody("Bead A", "n:9.99", Undefined, 0, Undefined),
                ProductBody("Bead B", "n:5", "zz", 9, "bob")}

\* The file-backed server with creates of the keys p1 and 7, the latter
\* named by the number 7, and updates, deletes and resets.
NextKeys ==
    \/ \E productId \in {"p1", NUMERIC_ID}, body \in KeyedBodies :
          PostProduct(AdminCaller, productId, body)
    \/ \E id \in KeyedIds, body \in UpdateBodies : PutProduct(AdminCaller, id, body)
    \/ \E id \in KeyedIds : DeleteProduct(AdminCaller, id)
    \/ Reset(AdminCaller, "products")
    \/ \E q \in DOMAIN req : Open(q)
    \/ \E q \in DOMAIN req : Write(q)
    \/ \E q \in DOMAIN req : Rename(q)

InitKeys == variant = "file" /\ InitServer

SpecKeys == InitKeys /\ [][NextKeys]_vars

\* ------------------------------------------------------------------ claims

\* The collection c as a reader finds it: the mapping of the in-memory
\* server, or what loadData returns (nothing when it throws).
Readable(c) == variant = "memory" \/ ~LoadThrows(file[c])

Stored(c) ==
    IF variant = "memory" THEN mem[c]
    ELSE IF LoadThrows(file[c]) THEN EmptyMap ELSE loadData(file[c])

\* The record of key k in collection c is there for a reader, before the
\* step and after it.
Present(c, k) == Readable(c) /\ k \in DOMAIN Stored(c)

PresentAfter(c, k) ==
    IF variant = "memory" THEN k \in DOMAIN mem'[c]
    ELSE ~LoadThrows(file'[c]) /\ k \in DOMAIN loadData(file'[c])

\* The step is the rename that ends a saveData of request q.
RenameBy(q) ==
    /\ q \in DOMAIN req /\ q.pc = "rename" /\ tmp[q.coll].exists
    /\ file' = [file EXCEPT ![q.coll] = tmp[q.coll]]
    /\ req' = IF q.todo # <<>>
              THEN With(Renamed(Without(req, q), q.coll),
                        [q EXCEPT !.pc = "open", !.coll = Head(q.todo),
                                  !.todo = Tail(q.todo),
                                  !.changed = \/ q.changed
                                              \/ Reads(tmp[q.coll]) # Reads(file[q.coll])])
              ELSE Renamed(Without(req, q), q.coll)

\* The step is the rename after which request q is answered 200.
CommitBy(q) ==
    /\ RenameBy(q) /\ q.todo = <<>>
    /\ last' = Response(q.kind, q.key, 200, responseTimestamp(q))

\* The step is the arrival of a request.
Arrival == last'.from # NoOrigin

\* C1: a request to one of the admin-gated endpoints from a caller the gate
\* does not let through is answered 403, and the step that answers 403
\* changes neither the collection files, nor the temporary paths, nor the
\* collections in memory, and leaves no request of that caller in flight to
\* save later, whatever other requests are in flight.
C1_DeniedRequestSavesNothing ==
    [][ /\ (Arrival /\ ~verifyAdmin(variant, last'.from)) => last'.status = 403
        /\ last'.status = 403 => UNCHANGED <<file, tmp, mem, req>> ]_vars

\* C1, its case: a reset of all from the outsider is answered 403 while the
\* products file holds a record and another request is in flight.
C1_Witness ==
    /\ last.status = 403 /\ last.kind = "reset" /\ last.key = "all"
    /\ req # EmptyBag
    /\ Readable("products") /\ DOMAIN Stored("products") # {}

\* The addresses that stand for the loopback interface.
LoopbackAddresses == {LOOPBACK4, LOOPBACK6, MAPPED_LOOPBACK}

Allowlist(v) == IF v = "file" THEN ADMIN_IPS ELSE ADMIN_IPS_MEM

\* C2: the gate returns true for 127.0.0.1 and for the addresses of the
\* allowlist and false for all others.  Stated here with every allowance the
\* gate's contract makes (the host name localhost, the other ways of writing
\* the loopback address, blanks around a forwarded-for entry): a request the
\* gate lets through has the host name localhost, or its address, taken from
\* the first forwarded-for entry, then the real-IP header, then the peer
\* address, is a loopback address or is on the server's allowlist; and a
\* request whose address is 127.0.0.1 or on the allowlist is let through.
C2_GateLetsThroughOnlyListedAddresses ==
    last.kind = "adminStatus" =>
        LET o == last.from
            a == OrElse(Trim(SplitFirst(o.xff)),
                        OrElse(Trim(o.realip), Trim(o.remote)))
        IN  /\ last.status = 200 =>
                \/ o.hostname = "localhost"
                \/ a \in LoopbackAddresses
                \/ a \in Allowlist(variant)
            /\ (getClientIP(variant, o) = LOOPBACK4
                \/ getClientIP(variant, o) \in Allowlist(variant))
               => last.status = 200

\* C3: a create of a key the products collection holds, that is answered
\* neither 400 nor 403, is answered 409 and changes nothing, whichever
\* server handles it.
C3_CreateOfExistingKeyConflicts ==
    [][ (/\ Arrival /\ last'.kind = "postProduct"
         /\ last'.status \notin {400, 403}
         /\ Readable("products") /\ last'.key \in DOMAIN Stored("products"))
        => (/\ last'.status = 409
            /\ UNCHANGED <<file, tmp, mem, req>>) ]_vars

C4_UpdateKeepsProvenance ==
    [][ \A q \in DOMAIN req :
          (/\ CommitBy(q) /\ q.kind = "putProduct"
           /\ Present("products", q.key) /\ PresentAfter("products", q.key)
           /\ Stored("products")[q.key].createdAt > 0
           /\ Stored("products")[q.key].createdBy # Undefined)
          => /\ loadData(file'["products"])[q.key].createdAt
                    = Stored("products")[q.key].createdAt
             /\ loadData(file'["products"])[q.key].createdBy
                    = Stored("products")[q.key].createdBy ]_vars

\* C5: a delete of a key the products collection does not hold is answered
\* 404; and a delete of a key is not answered 200 when the last create or
\* delete of that key to succeed was a delete, in any interleaving.
C5_NoSecondDelete ==
    [][ /\ (/\ Arrival /\ last'.kind = "deleteProduct" /\ last'.status # 403
            /\ Readable("products") /\ last'.key \notin DOMAIN Stored("products"))
           => last'.status = 404
        /\ (last'.kind = "deleteProduct" /\ last'.status = 200)
           => hist[last'.key] # "deleted" ]_vars

\* C6: at every moment the file at a collection's path is absent or is a
\* complete serialized mapping, whatever saves are in progress.
C6_TargetAlwaysComplete ==
    \A c \in Collections : file[c].exists => Parses(file[c].text)

\* The collections a reset type names.
Chosen(type) == {resetTargets(type)[i] : i \in 1..Len(resetTargets(type))}

\* C8: a reset from an authorized caller with a type other than content,
\* products and all (a missing one too) is answered 400 and changes neither
\* collection; with one of these types it empties the collections the type
\* names, and only these; on either server.
C8_Reset ==
    [][ /\ (/\ Arrival /\ last'.kind = "reset" /\ verifyAdmin(variant, last'.from)
            /\ Chosen(last'.key) = {})
           => (last'.status = 400 /\ UNCHANGED <<file, tmp, mem, req>>)
        /\ (/\ Arrival /\ last'.kind = "reset" /\ verifyAdmin(variant, last'.from)
            /\ Chosen(last'.key) # {} /\ variant = "memory")
           => (/\ last'.status = 200
               /\ \A c \in Collections :
                    mem'[c] = IF c \in Chosen(last'.key) THEN EmptyMap ELSE mem[c])
        /\ \A q \in DOMAIN req :
             (RenameBy(q) /\ q.kind = "reset")
             => (/\ q.coll \in Chosen(q.key)
                 /\ q.data = EmptyMap
                 /\ \A c \in Collections \ {q.coll} : file'[c] = file[c]) ]_vars

\* C9: after a successful create whose body has no createdAt, the createdAt
\* of the stored record is the lastModified of that create, the timestamp of
\* its response, whatever the clock does during the handler (file-backed
\* server, which stamps createdAt).
C9_CreatedAtIsFirstLastModified ==
    [][ \A q \in DOMAIN req :
          (/\ CommitBy(q) /\ q.kind = "postProduct" /\ q.body.createdAt = 0
           /\ PresentAfter("products", q.key)
           /\ loadData(file'["products"])[q.key] = q.data[q.key])
          => loadData(file'["products"])[q.key].createdAt = last'.ts ]_vars

\* C10: a record that is there is gone after a step only when the step is a
\* successful delete of its key or a save of a reset of its collection, in
\* any interleaving.
C10_OnlyDeleteOrResetRemoves ==
    [][ \A c \in Collections : \A k \in ProductIds \cup Pages :
          (Present(c, k) /\ ~PresentAfter(c, k))
          => \/ /\ c = "products" /\ last'.kind = "deleteProduct"
                /\ last'.key = k /\ last'.status = 200
             \/ /\ variant = "memory" /\ last'.kind = "reset"
                /\ last'.status = 200 /\ c \in Chosen(last'.key)
             \/ \E q \in DOMAIN req :
                    RenameBy(q) /\ q.kind = "reset" /\ q.coll = c ]_vars

\* C11: a create of a product key is not answered 200 when the last create,
\* delete or products reset of that key to succeed was a create, in any
\* interleaving (file-backed server, whose handler checks that the key is
\* new).
C11_CreateIsAbsentToPresent ==
    [][ (/\ variant = "file"
         /\ last'.kind = "postProduct" /\ last'.status = 200)
        => hist[last'.key] # "created" ]_vars

\* C12: an update of a key the products collection does not hold is
\* answered 404; and in any interleaving the key is in the stored collection
\* after the save of an update only if it was there just before that save.
C12_UpdateNeverCreates ==
    [][ /\ (/\ Arrival /\ last'.kind = "putProduct"
            /\ last'.status \notin {400, 403}
            /\ Readable("products") /\ last'.key \notin DOMAIN Stored("products"))
           => last'.status = 404
        /\ \A q \in DOMAIN req :
             (/\ CommitBy(q) /\ q.kind = "putProduct"
              /\ PresentAfter("products", q.key))
             => Present("products", q.key) ]_vars

\* C13: the clock never going back, a successful create or update leaves the
\* stored record of its key with a lastModified not before the one the
\* stored record had, in any interleaving, and the timestamp of its
\* response is the lastModified of the record it stored.
C13_LastModifiedMonotonic ==
    [][ /\ now' >= now
        /\ \A q \in DOMAIN req :
             (/\ CommitBy(q) /\ q.kind \in {"postProduct", "putProduct"}
              /\ Present("products", q.key) /\ PresentAfter("products", q.key))
             => /\ loadData(file'["products"])[q.key].lastModified
                       >= Stored("products")[q.key].lastModified
                /\ loadData(file'["products"])[q.key].lastModified = last'.ts ]_vars

\* C14: a create from an authorized caller is answered 400 exactly when the
\* key or the record is missing or the record has no name or no price (a
\* price of 0 is a price); answered 400 it changes nothing; and with none of
\* these and the key absent it is not refused: the handler goes on to save
\* the record (file-backed server, whose handler validates).
C14_BadRequestExactlyWhenMissing ==
    [][ (/\ variant = "file" /\ Arrival /\ last'.kind = "postProduct"
         /\ verifyAdmin(variant, last'.from))
        => \A body \in CreateBodies \cup {NoBody} :
             LET missing == \/ last'.key = Undefined
                            \/ ~body.present
                            \/ body.name = Undefined
                            \/ body.price = Undefined
             IN  PostProduct(last'.from, last'.key, body) =>
                 /\ last'.status = 400 <=> missing
                 /\ last'.status = 400 => UNCHANGED <<file, tmp, mem, req>>
                 /\ (~missing /\ ~Present("products", last'.key)
                     /\ Readable("products"))
                    => (last'.status = 0 /\ req' # req) ]_vars

\* C15: the public product list has exactly one item per key of the products
\* collection, and in the item of a key sizes is ["Standard"] when the
\* stored record has no sizes, inStock is true unless the stored value is
\* false, featured is false when missing, scents and colors are empty when
\* missing; an attribute the record has with a value is passed on, and so
\* are the name and the price.
C15_PublicListDefaults ==
    listing.status = 200 =>
        LET productData == loadData(file["products"])
            items == listing.items
        IN  /\ ~LoadThrows(file["products"])
            /\ Len(items) = Cardinality(DOMAIN productData)
            /\ \A k \in DOMAIN productData :
                 \E i \in 1..Len(items) :
                    /\ items[i].id = k
                    /\ \A j \in 1..Len(items) : items[j].id = k => j = i
                    /\ items[i].name = productData[k].name
                    /\ items[i].price = productData[k].price
                    /\ productData[k].sizes = Undefined => items[i].sizes = "[Standard]"
                    /\ productData[k].sizes \in {"[S,L]", "[]"}
                           => items[i].sizes = productData[k].sizes
                    /\ items[i].inStock = "true" <=> productData[k].inStock # "false"
                    /\ items[i].inStock \in {"true", "false"}
                    /\ productData[k].featured = Undefined => items[i].featured = "false"
                    /\ productData[k].scents = Undefined => items[i].scents = "[]"
                    /\ productData[k].colors = Undefined => items[i].colors = "[]"

\* C15, its case: the list of two products, the first with no sizes and no
\* inStock, has two items, the first with the defaults.
C15_Witness ==
    /\ listing.status = 200
    /\ Len(listing.items) = 2
    /\ loadData(file["products"])["p1"].sizes = Undefined
    /\ loadData(file["products"])["p1"].inStock = Undefined
    /\ listing.items[1].sizes = "[Standard]"
    /\ listing.items[1].inStock = "true"

\* C16: of two requests on one collection that overlap both are answered
\* 200 and the later save wins: when the saveData of a request has finished
\* and the request is answered 200, the collection on disk is exactly the
\* mapping that request computed, and no request is answered 500.
C16_LaterSaveWins ==
    [][ /\ \A q \in DOMAIN req :
             CommitBy(q) => file'[q.coll] = FileOf(Stringify(q.data))
        /\ \A q \in DOMAIN req :
             (q.pc = "rename" /\ req' = Without(req, q)) => last'.status = 200 ]_vars

\* C18: no file-system fault being injected (the model injects none), no
\* request is answered 500, in any interleaving of requests on one
\* collection.
C18_NoServerError == last.status # 500

\* The step is the failure of the rename of request q, answered 500.
FailBy(q) ==
    /\ q \in DOMAIN req /\ q.pc = "rename" /\ ~tmp[q.coll].exists
    /\ req' = Without(req, q)
    /\ last' = Response(q.kind, q.key, 500, 0)

\* C17: a request answered 400, 403, 404, 409 or 500 has changed neither
\* collection: the step that refuses a request on its arrival leaves the
\* files as they are, and a request answered 500 when a save of it fails, a
\* reset of all in particular, has not changed what a collection reads as by
\* a save before.
C17_FailureChangesNothing ==
    [][ /\ (Arrival /\ last'.status \in {400, 403, 404, 409, 500})
           => UNCHANGED <<file, tmp, mem>>
        /\ \A q \in DOMAIN req : FailBy(q) => ~q.changed ]_vars

\* C19: in every reachable state of the file-backed products collection,
\* after any sequence and interleaving of creates, updates, deletes and
\* resets with any bodies, every stored record has an id equal to the key it
\* is stored under, a non-empty name and a price.
C19_StoredIdIsKey ==
    (variant = "file" /\ Readable("products")) =>
        \A k \in DOMAIN Stored("products") :
            /\ Stored("products")[k].id = k
            /\ Stored("products")[k].name \notin {Undefined, ""}
            /\ Stored("products")[k].price # Undefined

====
